---------------------------- MODULE Spec2Model ----------------------------
(***************************************************************************)
(* Model of cargo-diff-tools, src/src/lib.rs: build_app obtains           *)
(* `git diff --unified=0`, parses it into the changed line ranges of each  *)
(* file, then filters a stream of JSON diagnostics (standard input, or    *)
(* the standard output of a spawned subcommand) with process_stream and   *)
(* should_report_diagnostic, and ends in Ok or in an error.               *)
(*                                                                         *)
(* The modules diagnostics, diff, intervals and reporters are not part of *)
(* the sources at hand: Levels, parse_diff, intersect_intervals and       *)
(* report_diagnostic are modelled from the specification (spec.md 3, 4.1, *)
(* 4.2, 4.4).                                                              *)
(***************************************************************************)
EXTENDS Integers, Sequences, FiniteSets

VARIABLES
    pc,            \* position in build_app: "start", "spawn", "stream", "wait", "done"
    subcommand,    \* TRUE iff build_app was given Some(subcommand)
    output_arg,    \* the --output option: <<>> or <<kind>>
    diff_state,    \* what became of the diff: "pending", "git_failed", "malformed", "parsed"
    file_changes,  \* FileChanges: file name -> sequence of [start, end]
    spawned,       \* the subprocess has been started
    reported,      \* process_stream's counter
    reports,       \* number of calls of report_diagnostic
    lines_read,    \* lines taken from the stream
    diagnostic,    \* the decoded diagnostic under inspection: <<>> or <<d>>
    log,           \* one entry per line read: its kind and its verdict
    eof,           \* the stream was read to its end
    exit_status,   \* <<>> or <<status>> once child.wait() returned
    result         \* [kind, count]: how build_app ended

vars == <<pc, subcommand, output_arg, diff_state, file_changes, spawned, reported,
          reports, lines_read, diagnostic, log, eof, exit_status, result>>

----------------------------------------------------------------------------
(* Bounds *)

MaxLine == 2

MaxSpans == 2

MaxDiffLines == 3

MaxStream == 2

----------------------------------------------------------------------------
(* Data *)

Files == {"a.rs", "b.rs"}

DevNull == "/dev/null"

Levels == {"Error", "Warning", "Note", "Help", "Ice", "Unknown"}

OutputKinds == {"Json", "Rendered", "GitHub"}

CARGO_FAILED_EXIT_CODE == 101

EmptyChanges == [f \in {} |-> <<>>]

SeqsUpTo(S, n) == UNION {[1..k -> S] : k \in 0..n}

\* Span { file_name, line_start, line_end }, inclusive, line_start <= line_end
Spans ==
    {sp \in [file_name : Files, line_start : 1..MaxLine, line_end : 1..MaxLine] :
        sp.line_start <= sp.line_end}

\* Diagnostic { message: Option<Message { level, spans }> }
DiagnosticsWith(n) ==
    {[message |-> <<>>]} \cup
    {[message |-> <<[level |-> l, spans |-> ss]>>] : l \in Levels, ss \in SeqsUpTo(Spans, n)}

Diagnostics == DiagnosticsWith(MaxSpans)

\* the diagnostics of a whole run carry at most one span each
StreamDiagnostics == DiagnosticsWith(1)

\* ExitStatus: success() and code(); code() is None for a child killed by a signal
ExitStatuses ==
    {[success |-> TRUE, code |-> <<0>>],
     [success |-> FALSE, code |-> <<1>>],
     [success |-> FALSE, code |-> <<CARGO_FAILED_EXIT_CODE>>],
     [success |-> FALSE, code |-> <<>>]}

----------------------------------------------------------------------------
(* diff::parse_diff, from spec.md 4.1 *)

FileLine(p) == [kind |-> "file", path |-> p, new_start |-> 0, new_count |-> <<>>]

HunkLine(s, c) == [kind |-> "hunk", path |-> "", new_start |-> s, new_count |-> c]

GarbageLine == [kind |-> "garbage", path |-> "", new_start |-> 0, new_count |-> <<>>]

DiffLines ==
    {FileLine(p) : p \in Files \cup {DevNull}} \cup
    {HunkLine(s, c) : s \in 1..MaxLine, c \in {<<>>, <<0>>, <<1>>, <<2>>}} \cup
    {GarbageLine}

DiffTexts == SeqsUpTo(DiffLines, MaxDiffLines)

Put(map, k, v) == [x \in DOMAIN map \cup {k} |-> IF x = k THEN v ELSE map[x]]

RECURSIVE parse_lines(_, _, _)
parse_lines(lines, current, changes) ==
    IF lines = <<>> THEN [ok |-> TRUE, changes |-> changes]
    ELSE LET l == Head(lines)
             rest == Tail(lines)
             count == IF l.new_count = <<>> THEN 1 ELSE l.new_count[1]
         IN  CASE l.kind = "file" ->
                    IF l.path = DevNull THEN parse_lines(rest, <<>>, changes)
                    ELSE parse_lines(rest, <<l.path>>,
                            IF l.path \in DOMAIN changes THEN changes
                            ELSE Put(changes, l.path, <<>>))
               [] l.kind = "hunk" ->
                    IF count = 0 \/ current = <<>> THEN parse_lines(rest, current, changes)
                    ELSE parse_lines(rest, current,
                            [changes EXCEPT ![current[1]] =
                                Append(@, [start |-> l.new_start,
                                           end |-> l.new_start + count - 1])])
               [] OTHER -> [ok |-> FALSE, changes |-> EmptyChanges]

parse_diff(diff) == parse_lines(diff, <<>>, EmptyChanges)

\* the FileChanges a successful parse can return and build_app goes on with
ParsedChanges ==
    {parse_diff(t).changes : t \in {u \in DiffTexts : parse_diff(u).ok}} \ {EmptyChanges}

----------------------------------------------------------------------------
(* intervals::intersect_intervals, from spec.md 4.2 *)

RECURSIVE intersect_intervals(_, _, _)
intersect_intervals(line_start, line_end, intervals) ==
    IF intervals = <<>> THEN FALSE
    ELSE IF line_start <= Head(intervals).end /\ Head(intervals).start <= line_end THEN TRUE
    ELSE intersect_intervals(line_start, line_end, Tail(intervals))

(* reporters::report_diagnostic, from spec.md 2 and 4.4: whether the        *)
(* diagnostic it rendered counts toward failure                             *)
report_diagnostic(d, output) ==
    /\ output \in OutputKinds
    /\ Len(d.message) = 1
    /\ d.message[1].level \in {"Error", "Warning"}

----------------------------------------------------------------------------
(* lib.rs: should_report_diagnostic *)

\* lines 187-188: the span's file has an entry and the span meets one of its intervals
span_intersects(span, changes) ==
    /\ span.file_name \in DOMAIN changes
    /\ intersect_intervals(span.line_start, span.line_end, changes[span.file_name])

\* mutant: only the first span is looked at
intersects_first_span_only(spans, changes) ==
    spans # <<>> /\ span_intersects(Head(spans), changes)

\* lines 185-193: the loop over message.spans, left at the first hit
RECURSIVE intersects_changes(_, _)
intersects_changes(spans, changes) ==
    IF spans = <<>> THEN FALSE
    ELSE IF span_intersects(Head(spans), changes) THEN TRUE
    ELSE intersects_changes(Tail(spans), changes)

\* mutant: a warning or error without spans passes the filter
should_report_forwarding_no_span(d, changes) ==
    IF Len(d.message) = 1
    THEN IF d.message[1].level = "Warning" \/ d.message[1].level = "Error"
         THEN d.message[1].spans = <<>> \/ intersects_changes(d.message[1].spans, changes)
         ELSE TRUE
    ELSE TRUE

\* mutant: the level is not looked at, every message is filtered by its spans
should_report_any_level(d, changes) ==
    IF Len(d.message) = 1
    THEN intersects_changes(d.message[1].spans, changes)
    ELSE TRUE

\* lines 182-200
should_report_diagnostic(d, changes) ==
    IF Len(d.message) = 1
    THEN IF d.message[1].level = "Warning" \/ d.message[1].level = "Error"
         THEN intersects_changes(d.message[1].spans, changes)
         ELSE TRUE
    ELSE TRUE

----------------------------------------------------------------------------
(* lib.rs: process_stream and the end of build_app *)

\* lines 100 and 147: the --output option, else Rendered for a subcommand, Json for stdin
output_kind(sub, arg) ==
    IF arg # <<>> THEN arg[1] ELSE IF sub THEN "Rendered" ELSE "Json"

\* mutant: the reporter is called before the filter is asked
reports_after_unfiltered(n, d, changes) == n + 1

\* lines 171-172: report_diagnostic is called for the diagnostics that pass the filter
reports_after(n, d, changes) ==
    IF should_report_diagnostic(d, changes) THEN n + 1 ELSE n

\* mutant: the reporter's answer is dropped, every forwarded diagnostic counts
reported_after_ignoring_reporter(n, d, changes, output) ==
    IF should_report_diagnostic(d, changes) THEN n + 1 ELSE n

\* lines 171-176: reported += 1 when the filter passes and the reporter says so
reported_after(n, d, changes, output) ==
    IF should_report_diagnostic(d, changes)
    THEN IF report_diagnostic(d, output) THEN n + 1 ELSE n
    ELSE n

\* mutant: the early return is gone
is_empty_never(changes) == FALSE

\* line 93
is_empty(changes) == DOMAIN changes = {}

\* mutant: cargo's failure code is not exempted
subprocess_failed_on_any_failure(status) == ~status.success

\* line 138: the subprocess ended neither in success nor with cargo's failure code
subprocess_failed(status) ==
    /\ ~status.success
    /\ (IF status.code = <<>> THEN 0 ELSE status.code[1]) # CARGO_FAILED_EXIT_CODE

\* mutant: off by one in the final test
run_result_above_one(n) ==
    IF n > 1 THEN [kind |-> "failure", count |-> n] ELSE [kind |-> "success", count |-> 0]

\* lines 151-156
run_result(n) ==
    IF n > 0 THEN [kind |-> "failure", count |-> n] ELSE [kind |-> "success", count |-> 0]

Ended(kind) == [kind |-> kind, count |-> 0]

\* the class of a diagnostic and the entry its line leaves in the log
DiagKind(d) ==
    IF d.message = <<>> THEN "control"
    ELSE IF d.message[1].level \in {"Error", "Warning"} THEN "gating" ELSE "other"

\* lines 171-172: the verdict on d: whether it went to the reporter, and whether
\* the reporter said it counts
LogEntry(d, changes, output) ==
    [kind |-> DiagKind(d),
     verdict |-> IF should_report_diagnostic(d, changes) THEN "forward" ELSE "suppress",
     counted |-> should_report_diagnostic(d, changes) /\ report_diagnostic(d, output)]

----------------------------------------------------------------------------
(* The run *)

Init ==
    /\ pc = "start"
    /\ subcommand \in BOOLEAN
    /\ output_arg \in {<<>>} \cup {<<k>> : k \in OutputKinds}
    /\ diff_state = "pending"
    /\ file_changes = EmptyChanges
    /\ spawned = FALSE
    /\ reported = 0
    /\ reports = 0
    /\ lines_read = 0
    /\ diagnostic = <<>>
    /\ log = <<>>
    /\ eof = FALSE
    /\ exit_status = <<>>
    /\ result = Ended("running")

\* lines 72-89: `git diff` does not start, or ends with a failure status
GitDiffFails ==
    /\ pc = "start"
    /\ pc' = "done"
    /\ diff_state' = "git_failed"
    /\ result' = Ended("git_diff_error")
    /\ UNCHANGED <<subcommand, output_arg, file_changes, spawned, reported, reports,
                   lines_read, diagnostic, log, eof, exit_status>>

\* mutant: the parse error is swallowed and the run goes on with no changes
DiffParseSwallowed ==
    /\ pc = "start"
    /\ \E diff \in DiffTexts : ~parse_diff(diff).ok
    /\ pc' = IF subcommand THEN "spawn" ELSE "stream"
    /\ diff_state' = "malformed"
    /\ UNCHANGED <<subcommand, output_arg, file_changes, spawned, reported, reports,
                   lines_read, diagnostic, log, eof, exit_status, result>>

\* line 92: parse_diff(&diff)? returns the error
DiffParseFails ==
    /\ pc = "start"
    /\ \E diff \in DiffTexts : ~parse_diff(diff).ok
    /\ pc' = "done"
    /\ diff_state' = "malformed"
    /\ result' = Ended("diff_parse_error")
    /\ UNCHANGED <<subcommand, output_arg, file_changes, spawned, reported, reports,
                   lines_read, diagnostic, log, eof, exit_status>>

\* lines 92-96: nothing changed, return Ok(())
NoChanges ==
    /\ pc = "start"
    /\ \E diff \in DiffTexts :
          /\ parse_diff(diff).ok
          /\ is_empty(parse_diff(diff).changes)
          /\ file_changes' = parse_diff(diff).changes
    /\ pc' = "done"
    /\ diff_state' = "parsed"
    /\ result' = Ended("no_changes")
    /\ UNCHANGED <<subcommand, output_arg, spawned, reported, reports,
                   lines_read, diagnostic, log, eof, exit_status>>

\* lines 92-99: the diff names changes; go on to the diagnostics
DiffParsed ==
    /\ pc = "start"
    /\ \E diff \in DiffTexts :
          /\ parse_diff(diff).ok
          /\ ~is_empty(parse_diff(diff).changes)
          /\ file_changes' = parse_diff(diff).changes
    /\ pc' = IF subcommand THEN "spawn" ELSE "stream"
    /\ diff_state' = "parsed"
    /\ UNCHANGED <<subcommand, output_arg, spawned, reported, reports,
                   lines_read, diagnostic, log, eof, exit_status, result>>

\* lines 111-130: the subprocess starts and its standard output is the stream
Spawn ==
    /\ pc = "spawn"
    /\ spawned' = TRUE
    /\ pc' = "stream"
    /\ UNCHANGED <<subcommand, output_arg, diff_state, file_changes, reported, reports,
                   lines_read, diagnostic, log, eof, exit_status, result>>

\* lines 117-123: the subprocess cannot be started
SpawnFails ==
    /\ pc = "spawn"
    /\ pc' = "done"
    /\ result' = Ended("spawn_error")
    /\ UNCHANGED <<subcommand, output_arg, diff_state, file_changes, spawned, reported,
                   reports, lines_read, diagnostic, log, eof, exit_status>>

\* lines 165-176: one turn of the loop of process_stream on a line that decodes to d
LoopBody(d) ==
    /\ pc = "stream"
    /\ lines_read' = lines_read + 1
    /\ reports' = reports_after(reports, d, file_changes)
    /\ reported' = reported_after(reported, d, file_changes,
                                  output_kind(subcommand, output_arg))
    /\ log' = Append(log, LogEntry(d, file_changes, output_kind(subcommand, output_arg)))
    /\ UNCHANGED <<pc, subcommand, output_arg, diff_state, file_changes, spawned, eof,
                   exit_status, result>>

\* a turn of the loop within a run: the diagnostic is dropped at the end of the turn
Consume(d) ==
    /\ LoopBody(d)
    /\ diagnostic' = <<>>

\* mutant: the undecodable line is skipped and the loop goes on
DecodeErrorSkipped ==
    /\ pc = "stream"
    /\ lines_read < MaxStream
    /\ lines_read' = lines_read + 1
    /\ log' = Append(log, [kind |-> "undecodable", verdict |-> "none", counted |-> FALSE])
    /\ UNCHANGED <<pc, subcommand, output_arg, diff_state, file_changes, spawned, reported,
                   reports, diagnostic, eof, exit_status, result>>

\* lines 168-170: the line is no diagnostic; the error leaves process_stream and build_app
DecodeError ==
    /\ pc = "stream"
    /\ lines_read < MaxStream
    /\ lines_read' = lines_read + 1
    /\ log' = Append(log, [kind |-> "undecodable", verdict |-> "none", counted |-> FALSE])
    /\ pc' = "done"
    /\ result' = Ended("decode_error")
    /\ UNCHANGED <<subcommand, output_arg, diff_state, file_changes, spawned, reported,
                   reports, diagnostic, eof, exit_status>>

\* lines 166-167: reading the next line fails
ReadError ==
    /\ pc = "stream"
    /\ pc' = "done"
    /\ result' = Ended("read_error")
    /\ UNCHANGED <<subcommand, output_arg, diff_state, file_changes, spawned, reported,
                   reports, lines_read, diagnostic, log, eof, exit_status>>

\* lines 165, 178 and 148-156: end of standard input, the count decides
StdinEnd ==
    /\ pc = "stream"
    /\ ~subcommand
    /\ eof' = TRUE
    /\ pc' = "done"
    /\ result' = run_result(reported)
    /\ UNCHANGED <<subcommand, output_arg, diff_state, file_changes, spawned, reported,
                   reports, lines_read, diagnostic, log, exit_status>>

\* lines 165, 178 and 130-133: end of the subprocess's output, wait for it
SubprocessEnd ==
    /\ pc = "stream"
    /\ subcommand
    /\ eof' = TRUE
    /\ pc' = "wait"
    /\ UNCHANGED <<subcommand, output_arg, diff_state, file_changes, spawned, reported,
                   reports, lines_read, diagnostic, log, exit_status, result>>

\* lines 133-156: the subprocess has exited with status
ChildExit(status) ==
    /\ pc = "wait"
    /\ exit_status' = <<status>>
    /\ pc' = "done"
    /\ result' = IF subprocess_failed(status)
                 THEN [kind |-> "subprocess_error",
                       count |-> IF status.code = <<>> THEN -1 ELSE status.code[1]]
                 ELSE run_result(reported)
    /\ UNCHANGED <<subcommand, output_arg, diff_state, file_changes, spawned, reported,
                   reports, lines_read, diagnostic, log, eof>>

\* lines 133-135: child.wait() fails
WaitFails ==
    /\ pc = "wait"
    /\ pc' = "done"
    /\ result' = Ended("wait_error")
    /\ UNCHANGED <<subcommand, output_arg, diff_state, file_changes, spawned, reported,
                   reports, lines_read, diagnostic, log, eof, exit_status>>

Next ==
    \/ GitDiffFails
    \/ DiffParseFails
    \/ NoChanges
    \/ DiffParsed
    \/ Spawn
    \/ SpawnFails
    \/ (lines_read < MaxStream /\ \E d \in StreamDiagnostics : Consume(d))
    \/ DecodeError
    \/ ReadError
    \/ StdinEnd
    \/ SubprocessEnd
    \/ \E status \in ExitStatuses : ChildExit(status)
    \/ WaitFails

Spec == Init /\ [][Next]_vars

----------------------------------------------------------------------------
(* The filter on its own: process_stream entered with any parsed changes,   *)
(* one diagnostic of any shape put through a turn of its loop               *)

InitFilter ==
    /\ pc = "stream"
    /\ subcommand = FALSE
    /\ output_arg = <<>>
    /\ diff_state = "parsed"
    /\ file_changes \in ParsedChanges
    /\ spawned = FALSE
    /\ reported = 0
    /\ reports = 0
    /\ lines_read = 0
    /\ diagnostic = <<>>
    /\ log = <<>>
    /\ eof = FALSE
    /\ exit_status = <<>>
    /\ result = Ended("running")

\* the turn of the loop, the diagnostic kept for inspection
Classify(d) ==
    /\ LoopBody(d)
    /\ diagnostic' = <<d>>

NextFilter == lines_read = 0 /\ \E d \in Diagnostics : Classify(d)

SpecFilter == InitFilter /\ [][NextFilter]_vars

----------------------------------------------------------------------------
(* Properties *)

Gating(d) == d.message # <<>> /\ d.message[1].level \in {"Error", "Warning"}

\* some span of the message meets some changed interval of its own file
SomeSpanOverlaps(m) ==
    \E i \in 1..Len(m.spans) :
        /\ m.spans[i].file_name \in DOMAIN file_changes
        /\ \E j \in 1..Len(file_changes[m.spans[i].file_name]) :
              /\ m.spans[i].line_start <= file_changes[m.spans[i].file_name][j].end
              /\ file_changes[m.spans[i].file_name][j].start <= m.spans[i].line_end

Ungated(i) == log[i].kind \in {"control", "other"}

OnlyUngated == \A i \in 1..Len(log) : Ungated(i)

\* the number of Forward(counts_toward_failure = true) verdicts of the run
CountedVerdicts == Cardinality({i \in 1..Len(log) : log[i].verdict = "forward" /\ log[i].counted})

ExitTolerated ==
    /\ exit_status # <<>>
    /\ exit_status[1].success \/ exit_status[1].code = <<CARGO_FAILED_EXIT_CODE>>

C3_UngatedAlwaysForwarded ==
    (diagnostic # <<>> /\ ~Gating(diagnostic[1]))
        => (log[1].verdict = "forward" /\ reports = 1)

C3_Witness ==
    /\ diagnostic # <<>>
    /\ diagnostic[1].message # <<>>
    /\ diagnostic[1].message[1].level = "Note"
    /\ diagnostic[1].message[1].spans # <<>>
    /\ diagnostic[1].message[1].spans[1].file_name \in DOMAIN file_changes
    /\ file_changes[diagnostic[1].message[1].spans[1].file_name] # <<>>
    /\ ~SomeSpanOverlaps(diagnostic[1].message[1])
    /\ log[1].verdict = "forward"

C5_ResultIsTheCount ==
    (eof /\ pc = "done") =>
        result = (IF CountedVerdicts = 0 THEN [kind |-> "success", count |-> 0]
                  ELSE [kind |-> "failure", count |-> CountedVerdicts])

\* C5, amended: the same, provided that in subprocess mode the subprocess was
\* waited for and its exit status is success or 101
C5_ResultIsTheCountUnlessSubprocessFails ==
    (eof /\ pc = "done" /\ (subcommand => ExitTolerated)) =>
        result = (IF CountedVerdicts = 0 THEN [kind |-> "success", count |-> 0]
                  ELSE [kind |-> "failure", count |-> CountedVerdicts])

C5_Witness ==
    /\ eof
    /\ pc = "done"
    /\ subcommand
    /\ \E i \in 1..Len(log) : log[i].verdict = "suppress"
    /\ CountedVerdicts = 1
    /\ result = [kind |-> "failure", count |-> 1]

\* C6: an empty changed-ranges mapping ends the run at once in Ok: no line is
\* read, no verdict given, no subprocess started
C6_NoChangesEndsAtOnce ==
    (diff_state = "parsed" /\ DOMAIN file_changes = {})
        => /\ pc = "done"
           /\ result.kind = "no_changes"
           /\ lines_read = 0
           /\ log = <<>>
           /\ reports = 0
           /\ reported = 0
           /\ ~spawned
           /\ exit_status = <<>>

C6_Witness ==
    /\ diff_state = "parsed"
    /\ DOMAIN file_changes = {}
    /\ subcommand
    /\ pc = "done"

\* C7: a diff that does not parse aborts the run with that error before any
\* line is read, and no line is read before the diff is parsed
C7_MalformedDiffAborts ==
    /\ diff_state = "malformed"
          => /\ pc = "done"
             /\ result.kind = "diff_parse_error"
             /\ lines_read = 0
             /\ log = <<>>
             /\ reports = 0
             /\ reported = 0
             /\ ~spawned
    /\ (lines_read > 0 \/ spawned) => diff_state = "parsed"

C7_Witness ==
    /\ diff_state = "malformed"
    /\ result.kind = "diff_parse_error"

\* C8: an undecodable line ends the run with the decode error: it is the last
\* line read, the verdicts given before it stay, nothing is counted or reported
\* for it, and the result is neither Success nor Failure
C8_DecodeErrorAborts ==
    /\ [](\A i \in 1..Len(log) :
            log[i].kind = "undecodable"
                => /\ i = Len(log)
                   /\ pc = "done"
                   /\ result.kind = "decode_error"
                   /\ ~eof
                   /\ exit_status = <<>>)
    /\ [][/\ Len(log') >= Len(log)
          /\ SubSeq(log', 1, Len(log)) = log
          /\ (Len(log') > Len(log) /\ log'[Len(log')].kind = "undecodable")
                => (reported' = reported /\ reports' = reports)
          /\ result.kind = "decode_error" => result' = result]_vars

C8_Witness ==
    /\ Len(log) >= 2
    /\ log[1].verdict = "forward"
    /\ log[1].counted
    /\ log[Len(log)].kind = "undecodable"
    /\ subcommand
    /\ reported = 1
    /\ result.kind = "decode_error"

\* C9: the tally starts at zero, never decreases, grows by at most one per line
\* read; a suppressed diagnostic leaves the tally alone and does not reach the
\* reporter; reading a line does not change the changed ranges
C9_TallyMonotone ==
    /\ reported = 0
    /\ [][/\ reported' >= reported
          /\ reported' - reported <= lines_read' - lines_read
          /\ lines_read' - lines_read <= 1
          /\ (Len(log') > Len(log) /\ log'[Len(log')].verdict = "suppress")
                => (reported' = reported /\ reports' = reports)
          /\ lines_read' # lines_read => file_changes' = file_changes]_vars

C9_Witness ==
    /\ Len(log) >= 2
    /\ log[1].counted
    /\ log[2].verdict = "suppress"
    /\ reported = 1
    /\ reports = 1

====
